---- MODULE Spec2Model ----
(***************************************************************************)
(* Model of the rendering scheduler of OpenUriInBrowser                    *)
(* (plugin/renderer.py, plugin/ui/region_drawing.py).                      *)
(*                                                                         *)
(* RendererThread._update_foreground_views is called by a repeating timer. *)
(* Every call of it is a "tick"; a tick runs on a timer thread, so the     *)
(* statements of two ticks and the editor's own events interleave.  An     *)
(* action below is one statement or one API call of the code; statements   *)
(* that only read are joined with the statement that follows them where    *)
(* every editor event commutes with the read.                              *)
(***************************************************************************)
EXTENDS Integers, Sequences, FiniteSets, TLC

\* ------------------------------------------------------------------ bounds
\* How many editor events (keystrokes, tab switches, setting changes) happen
\* in a behaviour whose timer calls never overlap.
MaxEvents == 2
\* How many of them happen in a behaviour in which a second timer thread
\* entered _update_foreground_views while the first was still in it (the
\* product of two frames is what makes the state space large).
MaxOverlapEvents == 0

\* ------------------------------------------------------------ the universe
None == "None"
\* Timer threads: two firings of the timer may be running at once.
Ticks == {"t1", "t2"}
\* One window with two layout groups; the tabs each group can show.
Groups == {1, 2}
Views == {"v1", "v2", "v3"}
Tabs(g) == IF g = 1 THEN {"v1", "v2"} ELSE {"v3", None}
\* The values of the two layer policies.
Policy == {"always", "hover", "never"}
\* The configured size threshold of is_view_too_large.
LargeFileThreshold == 2

VARIABLES
    \* --- the views (owned by the editor)
    text,          \* view -> its characters ("u": part of a URI, "x": not)
    dirty,         \* view -> view_is_dirty_val
    typing,        \* view -> is_view_typing
    processable,   \* view -> is_processable_view
    transient,     \* view -> is_transient_view
    phantoms,      \* view -> its phantom sets, a set of <<key, match list>>
    regions,       \* view -> its added regions, a set of <<key, match list>>
    active,        \* group -> the active view of the group, or None
    settings,      \* the plugin settings that the renderer reads
    \* --- RendererThread
    is_rendering,
    \* --- one frame of _update_foreground_views per timer thread
    pc,            \* thread -> the statement it is at
    grp,           \* thread -> group index of the foreground_views generator
    cur,           \* thread -> the view passed to _update_view
    uri_regions,   \* thread -> the local uri_regions of _detect_uris_globally
    \* --- observations (not program state)
    seen,          \* thread -> what the gate read on the view it last gated
    scanned,       \* thread -> view_find_all was called in this _update_view
    skipped,       \* thread -> foreground views its aborted call never reached
    retry,         \* views whose processing raised, not scanned since
    blocked,       \* a call returned at once although no call was running
    overlap,       \* a second call got past the is_rendering test
    events         \* editor events so far

VARIABLES
    \* --- a call of get_image_color / color_code_to_rgba (plugin/ui/image.py)
    color_code,    \* the colour string of the user's image_colors setting
    foreground,    \* the foreground colour of the theme at the region
    rgba,          \* what the call gave: nothing yet, a value, or an error
    outcome,       \* how get_colored_image_base64_by_region ended with it
    \* --- one recolouring (change_png_bytes_color and its caller)
    img_bytes,     \* the template image: the PNG of an image name
    rgba_code,     \* the colour code passed
    img_dst,       \* what change_png_bytes_color gave
    img_base64,    \* what get_colored_image_base64_by_color gave
    \* --- the two @lru_cache caches and the threads that ask for images
    cache_b64,     \* cache of get_colored_image_base64_by_color, oldest first
    cache_png,     \* cache of change_png_bytes_color, oldest first
    call,          \* caller -> the frame of its call in progress
    result,        \* caller -> the key and value of its last finished call
    \* --- observations (not program state)
    stored,        \* the keys that cache_b64 has ever held
    refetch,       \* caller -> its last call missed a key stored before
    raced,         \* a computed value found its key in the cache already
    ncalls         \* calls so far

viewVars == <<text, dirty, typing, processable, transient, phantoms, regions>>
envVars == <<active, settings>>
frameVars == <<pc, grp, cur, uri_regions>>
obsVars == <<seen, scanned, skipped, retry, blocked, overlap>>
codecVars == <<color_code, foreground, rgba, outcome>>
recolorVars == <<img_bytes, rgba_code, img_dst, img_base64>>
cacheVars == <<cache_b64, cache_png, call, result, stored, refetch, raced, ncalls>>
imageVars == <<codecVars, recolorVars, cacheVars>>
vars == <<viewVars, envVars, is_rendering, frameVars, obsVars, events, imageVars>>

\* ------------------------------------------------------- pure operators

\* The match list of a text: the maximal runs of "u", in order, as
\* <<begin, end>> regions (end exclusive).
RECURSIVE FindRuns(_, _, _)
FindRuns(txt, i, start) ==
    IF i > Len(txt)
    THEN IF start = 0 THEN << >> ELSE << <<start - 1, Len(txt)>> >>
    ELSE IF txt[i] = "u"
         THEN FindRuns(txt, i + 1, IF start = 0 THEN i ELSE start)
         ELSE IF start = 0
              THEN FindRuns(txt, i + 1, 0)
              ELSE << <<start - 1, i - 1>> >> \o FindRuns(txt, i + 1, 0)

view_find_all(txt) == FindRuns(txt, 1, 0)

is_view_too_large(v) == Len(text[v]) > LargeFileThreshold

\* The key of the region layer and of a view's phantom set.
RegionKey(v) == "OUIB_uri_regions"
PhantomKey(v) == "phantom_set_" \o v

\* view.add_regions / view.erase_regions on a keyed store.
EraseKey(store, key) == { p \in store : p[1] # key }
PutKey(store, key, rs) == EraseKey(store, key) \cup { <<key, rs>> }
\* What a layer shows: the match list under its key, empty when absent.
Shown(store, key) ==
    IF \E p \in store : p[1] = key
    THEN (CHOOSE p \in store : p[1] = key)[2]
    ELSE << >>

erase_uri_regions(rg, v) == [rg EXCEPT ![v] = EraseKey(@, RegionKey(v))]
\* (variant: the regions are added beside those already there)
draw_uri_regions_Added(rg, v, rs) == [rg EXCEPT ![v] = @ \cup { <<RegionKey(v), rs>> }]
draw_uri_regions(rg, v, rs) == [rg EXCEPT ![v] = PutKey(@, RegionKey(v), rs)]
erase_phantom_set(ph, v) == [ph EXCEPT ![v] = EraseKey(@, PhantomKey(v))]
update_phantom_set(ph, v, rs) == [ph EXCEPT ![v] = PutKey(@, PhantomKey(v), rs)]

\* The views foreground_views() would yield right now.
ForegroundNow == { active[g] : g \in Groups } \ {None}

\* The four conditions of the gate of _update_view, as read on view v now.
Cond(v) ==
    [processable |-> <<"processable", processable[v]>>,
     dirty |-> <<"dirty", dirty[v]>>,
     typing |-> <<"typing", typing[v]>>,
     transient |-> <<"transient",
                     transient[v] /\ ~settings.work_for_transient_view>>]

\* (variants of Gate with a slip in one condition)
Gate_IgnoresDirty(v) ==
    LET c == Cond(v)
    IN  IF ~c.processable[2] THEN [log |-> <<c.processable>>, reject |-> TRUE]
        ELSE IF c.typing[2]
             THEN [log |-> <<c.processable, c.dirty, c.typing>>, reject |-> TRUE]
             ELSE [log |-> <<c.processable, c.dirty, c.typing, c.transient>>,
                   reject |-> c.transient[2]]

Gate_TypingFirst(v) ==
    LET c == Cond(v)
    IN  IF c.typing[2] THEN [log |-> <<c.typing>>, reject |-> TRUE]
        ELSE IF ~c.processable[2]
             THEN [log |-> <<c.typing, c.processable>>, reject |-> TRUE]
        ELSE IF ~c.dirty[2]
             THEN [log |-> <<c.typing, c.processable, c.dirty>>, reject |-> TRUE]
             ELSE [log |-> <<c.typing, c.processable, c.dirty, c.transient>>,
                   reject |-> c.transient[2]]

\* The `if ... or ... or ...: return` of _update_view on view v: the
\* conditions it evaluates, in order, each with the value read (`or` stops at
\* the first one that holds), and whether the view is rejected.
Gate(v) ==
    LET c == Cond(v)
    IN  IF ~c.processable[2] THEN [log |-> <<c.processable>>, reject |-> TRUE]
        ELSE IF ~c.dirty[2] THEN [log |-> <<c.processable, c.dirty>>, reject |-> TRUE]
        ELSE IF c.typing[2]
             THEN [log |-> <<c.processable, c.dirty, c.typing>>, reject |-> TRUE]
             ELSE [log |-> <<c.processable, c.dirty, c.typing, c.transient>>,
                   reject |-> c.transient[2]]

\* What is observed of a gating: the view, the state it had at that moment
\* (its flags, its size, what its two layers showed), and what the gate
\* evaluated and decided.
NoView == [view |-> None, flags |-> << >>, large |-> FALSE, had |-> << >>,
           log |-> << >>, reject |-> FALSE]
Seen(v) ==
    [view |-> v,
     flags |-> <<processable[v], dirty[v], typing[v],
                 transient[v] /\ ~settings.work_for_transient_view>>,
     large |-> is_view_too_large(v),
     had |-> <<Shown(phantoms[v], PhantomKey(v)), Shown(regions[v], RegionKey(v))>>,
     log |-> Gate(v).log,
     reject |-> Gate(v).reject]

\* The budget of editor events of the behaviour so far.
EventBudget == IF overlap THEN MaxOverlapEvents ELSE MaxEvents

\* ------------------------------------------------------------------ Init
RendererInit ==
    /\ text = [v \in Views |-> IF v = "v1" THEN <<"u">>
                               ELSE IF v = "v2" THEN <<"x", "u">> ELSE <<"u", "x">>]
    /\ dirty = [v \in Views |-> TRUE]
    /\ typing = [v \in Views |-> FALSE]
    /\ processable = [v \in Views |-> TRUE]
    /\ transient = [v \in Views |-> v = "v2"]
    /\ phantoms = [v \in Views |-> {}]
    /\ regions = [v \in Views |-> {}]
    /\ active = [g \in Groups |-> IF g = 1 THEN "v1" ELSE "v3"]
    /\ settings = [work_for_transient_view |-> TRUE,
                   show_open_button |-> "always",
                   draw_uri_regions_enabled |-> "always"]
    /\ is_rendering = FALSE
    /\ pc = [t \in Ticks |-> "idle"]
    /\ grp = [t \in Ticks |-> 1]
    /\ cur = [t \in Ticks |-> None]
    /\ uri_regions = [t \in Ticks |-> << >>]
    /\ seen = [t \in Ticks |-> NoView]
    /\ scanned = [t \in Ticks |-> FALSE]
    /\ skipped = [t \in Ticks |-> {}]
    /\ retry = {}
    /\ blocked = FALSE
    /\ overlap = FALSE
    /\ events = 0

\* No call of the image functions is made while the renderer is studied.
NoResult == [kind |-> "none", val |-> << >>]
CodecIdle ==
    color_code = << >> /\ foreground = << >> /\ rgba = NoResult /\ outcome = "none"
NoImage == [w |-> 0, h |-> 0, pixels |-> << >>]
RecolorIdle ==
    img_bytes = NoImage /\ rgba_code = << >> /\ img_dst = NoResult /\ img_base64 = NoResult
Callers == {"a", "b"}
NoCall == [pc |-> "idle", name |-> "", code |-> << >>, rows |-> << >>, png |-> NoImage]
CacheIdle ==
    /\ cache_b64 = << >> /\ cache_png = << >>
    /\ call = [c \in Callers |-> NoCall]
    /\ result = [c \in Callers |-> NoResult]
    /\ stored = {} /\ refetch = [c \in Callers |-> FALSE]
    /\ raced = FALSE /\ ncalls = 0
ImageIdle == CodecIdle /\ RecolorIdle /\ CacheIdle

Init == RendererInit /\ ImageIdle

\* --------------------------------------------------- the timer (a tick)

\* The repeating timer calls _update_foreground_views on thread t, which
\* begins with `if self.is_rendering: return`.  The threads are
\* interchangeable: "t2" is taken only while "t1" is busy.
Fire(t) ==
    /\ pc[t] = "idle"
    /\ t = "t2" => pc["t1"] # "idle"
    /\ IF is_rendering
       THEN /\ blocked' = (blocked \/ \A u \in Ticks : pc[u] = "idle")
            /\ UNCHANGED <<pc, grp, skipped, overlap>>
       ELSE /\ t = "t2" => events <= MaxOverlapEvents
            /\ pc' = [pc EXCEPT ![t] = "set"]
            /\ grp' = [grp EXCEPT ![t] = 1]
            /\ skipped' = [skipped EXCEPT ![t] = {}]
            /\ overlap' = (overlap \/ t = "t2")
            /\ UNCHANGED blocked
    /\ UNCHANGED <<imageVars, viewVars, envVars, is_rendering, cur, uri_regions,
                   seen, scanned, retry, events>>

\* _update_view returns: its locals are gone, the for loop resumes the
\* generator at the next group.
Return(t) ==
    /\ pc' = [pc EXCEPT ![t] = "loop"]
    /\ grp' = [grp EXCEPT ![t] = @ + 1]
    /\ cur' = [cur EXCEPT ![t] = None]
    /\ uri_regions' = [uri_regions EXCEPT ![t] = << >>]
    /\ scanned' = [scanned EXCEPT ![t] = FALSE]

\* self.is_rendering = True
SetRendering(t) ==
    /\ pc[t] = "set"
    /\ is_rendering' = TRUE
    /\ pc' = [pc EXCEPT ![t] = "loop"]
    /\ UNCHANGED <<imageVars, viewVars, envVars, grp, cur, uri_regions, obsVars, events>>

\* for view in foreground_views(): the generator is resumed and reads the
\* active view of the next group; after the last group the loop ends.
NextView(t) ==
    /\ pc[t] = "loop"
    /\ seen' = [seen EXCEPT ![t] = NoView]
    /\ IF grp[t] \notin Groups
       THEN /\ pc' = [pc EXCEPT ![t] = "unset"]
            /\ UNCHANGED <<grp, cur>>
       ELSE IF active[grp[t]] = None
            THEN /\ grp' = [grp EXCEPT ![t] = @ + 1]
                 /\ UNCHANGED <<pc, cur>>
            ELSE /\ cur' = [cur EXCEPT ![t] = active[grp[t]]]
                 /\ pc' = [pc EXCEPT ![t] = "gate"]
                 /\ UNCHANGED grp
    /\ UNCHANGED <<imageVars, viewVars, envVars, is_rendering, uri_regions,
                   scanned, skipped, retry, blocked, overlap, events>>

\* self.is_rendering = False
FinishTick(t) ==
    /\ pc[t] = "unset"
    /\ is_rendering' = FALSE
    /\ pc' = [pc EXCEPT ![t] = "idle"]
    /\ UNCHANGED <<imageVars, viewVars, envVars, grp, cur, uri_regions, obsVars, events>>

\* ----------------------------------------------------------- _update_view

\* The gate of _update_view and, for a view that passes it, the
\* is_view_too_large test.
EnterView(t) ==
    /\ pc[t] = "gate"
    /\ seen' = [seen EXCEPT ![t] = Seen(cur[t])]
    /\ IF Gate(cur[t]).reject
       THEN Return(t)
       ELSE /\ pc' = [pc EXCEPT ![t] = IF is_view_too_large(cur[t])
                                       THEN "large" ELSE "detect"]
            /\ UNCHANGED <<grp, cur, uri_regions, scanned>>
    /\ UNCHANGED <<imageVars, viewVars, envVars, is_rendering, skipped, retry, blocked,
                   overlap, events>>

\* (variant: the regions of an oversized view are not erased)
CleanUpLarge_KeepsRegions(t) ==
    /\ pc[t] = "large"
    /\ phantoms' = erase_phantom_set(phantoms, cur[t])
    /\ pc' = [pc EXCEPT ![t] = "large_dirty"]
    /\ UNCHANGED <<imageVars, text, dirty, typing, processable, transient, regions, envVars,
                   is_rendering, grp, cur, uri_regions, obsVars, events>>

\* self._clean_up_phantom_set(view); self._clean_up_uri_regions(view)
CleanUpLarge(t) ==
    /\ pc[t] = "large"
    /\ phantoms' = erase_phantom_set(phantoms, cur[t])
    /\ regions' = erase_uri_regions(regions, cur[t])
    /\ pc' = [pc EXCEPT ![t] = "large_dirty"]
    /\ UNCHANGED <<imageVars, text, dirty, typing, processable, transient, envVars,
                   is_rendering, grp, cur, uri_regions, obsVars, events>>

\* view_is_dirty_val(view, False): the last statement of either branch
ClearDirty(t) ==
    /\ pc[t] \in {"large_dirty", "clear_dirty"}
    /\ dirty' = [dirty EXCEPT ![cur[t]] = FALSE]
    /\ Return(t)
    /\ UNCHANGED <<imageVars, text, typing, processable, transient, phantoms, regions, envVars,
                   is_rendering, seen, skipped, retry, blocked, overlap, events>>

\* ------------------------------------------------- _detect_uris_globally

\* uri_regions = tuple(view_find_all(view, ...))
FindAll(t) ==
    /\ pc[t] = "detect"
    /\ uri_regions' = [uri_regions EXCEPT ![t] = view_find_all(text[cur[t]])]
    /\ scanned' = [scanned EXCEPT ![t] = TRUE]
    /\ retry' = retry \ {cur[t]}
    /\ pc' = [pc EXCEPT ![t] = "phantoms"]
    /\ UNCHANGED <<imageVars, viewVars, envVars, is_rendering, grp, cur,
                   seen, skipped, blocked, overlap, events>>

\* handle Phantoms: update the phantom set under policy "always", else erase
HandlePhantoms(t) ==
    /\ pc[t] = "phantoms"
    /\ phantoms' = IF settings.show_open_button = "always"
                   THEN update_phantom_set(phantoms, cur[t], uri_regions[t])
                   ELSE erase_phantom_set(phantoms, cur[t])
    /\ pc' = [pc EXCEPT ![t] = "regions"]
    /\ UNCHANGED <<imageVars, text, dirty, typing, processable, transient, regions, envVars,
                   is_rendering, grp, cur, uri_regions, obsVars, events>>

\* (variant: the regions are erased under policy "never" only)
HandleRegions_ErasesOnNever(t) ==
    /\ pc[t] = "regions"
    /\ regions' = IF settings.draw_uri_regions_enabled = "never"
                  THEN erase_uri_regions(regions, cur[t])
                  ELSE draw_uri_regions(regions, cur[t], uri_regions[t])
    /\ pc' = [pc EXCEPT ![t] = "clear_dirty"]
    /\ UNCHANGED <<imageVars, text, dirty, typing, processable, transient, phantoms, envVars,
                   is_rendering, grp, cur, uri_regions, obsVars, events>>

\* handle draw URI regions: draw under policy "always", else erase
HandleRegions(t) ==
    /\ pc[t] = "regions"
    /\ regions' = IF settings.draw_uri_regions_enabled = "always"
                  THEN draw_uri_regions(regions, cur[t], uri_regions[t])
                  ELSE erase_uri_regions(regions, cur[t])
    /\ pc' = [pc EXCEPT ![t] = "clear_dirty"]
    /\ UNCHANGED <<imageVars, text, dirty, typing, processable, transient, phantoms, envVars,
                   is_rendering, grp, cur, uri_regions, obsVars, events>>

\* The scan or an overlay update raises.  Nothing in _update_view or in
\* _update_foreground_views catches it: both frames are left at once, the
\* statements after the failing call never run, the timer thread's call ends.
Raise(t) ==
    /\ pc[t] \in {"detect", "phantoms", "regions"}
    /\ pc' = [pc EXCEPT ![t] = "idle"]
    /\ skipped' = [skipped EXCEPT ![t] =
                     { active[g] : g \in { h \in Groups : h > grp[t] } } \ {None}]
    /\ retry' = retry \cup {cur[t]}
    /\ cur' = [cur EXCEPT ![t] = None]
    /\ uri_regions' = [uri_regions EXCEPT ![t] = << >>]
    /\ seen' = [seen EXCEPT ![t] = NoView]
    /\ scanned' = [scanned EXCEPT ![t] = FALSE]
    /\ UNCHANGED <<imageVars, viewVars, envVars, is_rendering, grp, blocked, overlap, events>>

\* ------------------------------------------------------------ the editor

\* The texts one keystroke can lead to.
Keystrokes(v) ==
    {Append(text[v], "u")} \cup
    (IF text[v] = << >> THEN {} ELSE {SubSeq(text[v], 1, Len(text[v]) - 1)})

\* The user types "u" at the end of a shown view, or deletes its last
\* character: the text changes, the plugin's listener marks the view dirty
\* and typing.
Edit(v, s) ==
    /\ events < EventBudget
    /\ v \in ForegroundNow
    /\ s \in Keystrokes(v)
    /\ text' = [text EXCEPT ![v] = s]
    /\ dirty' = [dirty EXCEPT ![v] = TRUE]
    /\ typing' = [typing EXCEPT ![v] = TRUE]
    /\ events' = events + 1
    /\ UNCHANGED <<imageVars, processable, transient, phantoms, regions, envVars,
                   is_rendering, frameVars, obsVars>>

\* The idle gap after the last keystroke has passed.
StopTyping(v) ==
    /\ typing[v]
    /\ typing' = [typing EXCEPT ![v] = FALSE]
    /\ UNCHANGED <<imageVars, text, dirty, processable, transient, phantoms, regions, envVars,
                   is_rendering, frameVars, obsVars, events>>

\* Another tab of the group is selected (or the group's only tab closes/opens).
SetActive(g, x) ==
    /\ events < EventBudget
    /\ x # active[g]
    /\ active' = [active EXCEPT ![g] = x]
    /\ events' = events + 1
    /\ UNCHANGED <<imageVars, viewVars, settings, is_rendering, frameVars, obsVars>>

\* A shown view starts or finishes loading: is_processable_view flips.
SetProcessable(v) ==
    /\ events < EventBudget
    /\ v \in ForegroundNow
    /\ processable' = [processable EXCEPT ![v] = ~@]
    /\ events' = events + 1
    /\ UNCHANGED <<imageVars, text, dirty, typing, transient, phantoms, regions, envVars,
                   is_rendering, frameVars, obsVars>>

\* The user changes one of the settings the renderer reads.
SetSetting(new) ==
    /\ events < EventBudget
    /\ Cardinality({ k \in DOMAIN settings : new[k] # settings[k] }) = 1
    /\ settings' = new
    /\ events' = events + 1
    /\ UNCHANGED <<imageVars, viewVars, active, is_rendering, frameVars, obsVars>>

SettingsSpace ==
    [work_for_transient_view : BOOLEAN,
     show_open_button : Policy,
     draw_uri_regions_enabled : Policy]

Next ==
    \/ \E t \in Ticks : Fire(t)
    \/ \E t \in Ticks : SetRendering(t)
    \/ \E t \in Ticks : NextView(t)
    \/ \E t \in Ticks : FinishTick(t)
    \/ \E t \in Ticks : EnterView(t)
    \/ \E t \in Ticks : CleanUpLarge(t)
    \/ \E t \in Ticks : ClearDirty(t)
    \/ \E t \in Ticks : FindAll(t)
    \/ \E t \in Ticks : HandlePhantoms(t)
    \/ \E t \in Ticks : HandleRegions(t)
    \/ \E t \in Ticks : Raise(t)
    \/ \E v \in Views : \E s \in Keystrokes(v) : Edit(v, s)
    \/ \E v \in Views : StopTyping(v)
    \/ \E g \in Groups : \E x \in Tabs(g) : SetActive(g, x)
    \/ \E v \in Views : SetProcessable(v)
    \/ \E new \in SettingsSpace : SetSetting(new)

Spec == Init /\ [][Next]_vars
\* A timer thread runs on: every statement of a call that has begun is
\* executed in the end, and the timer keeps firing.  A failure (Raise) and
\* the editor's events are never forced.
TickStep(t) ==
    \/ Fire(t) \/ SetRendering(t) \/ NextView(t) \/ FinishTick(t)
    \/ EnterView(t) \/ CleanUpLarge(t) \/ ClearDirty(t)
    \/ FindAll(t) \/ HandlePhantoms(t) \/ HandleRegions(t)

FairSpec == Spec /\ \A t \in Ticks : WF_vars(TickStep(t))

\* ------------------------------------------------------------ properties

\* Thread t is inside the `for view in foreground_views()` loop.
InLoop(t) == pc[t] \notin {"idle", "set", "unset"}
\* Thread t is in _detect_uris_globally, or past it, on cur[t].
Detecting(t) == pc[t] \in {"detect", "phantoms", "regions", "clear_dirty"}
PhantomsShown(v) == Shown(phantoms[v], PhantomKey(v))
RegionsShown(v) == Shown(regions[v], RegionKey(v))
HoldsOverlays(v) == PhantomsShown(v) # << >> \/ RegionsShown(v) # << >>
\* The gate conditions in the order the specification gives them.
GateOrder == <<"processable", "dirty", "typing", "transient">>
\* Whether condition i of GateOrder rejects a view with the flags f.
Rejects(f, i) == IF i \in {1, 2} THEN ~f[i] ELSE f[i]
Eligible(f) == \A i \in 1..4 : ~Rejects(f, i)
\* A view the ticks do not work on, as things are now.
Ineligible(v) ==
    \/ v \notin ForegroundNow
    \/ ~processable[v]
    \/ transient[v] /\ ~settings.work_for_transient_view

\* C1: at most one call of _update_foreground_views is inside the
\* view-processing loop at any time, in every interleaving of timer ticks.
C1_SingleFlight == Cardinality({ t \in Ticks : InLoop(t) }) <= 1

\* C2: when processing one view raises during a tick, every other foreground
\* view of that tick is still passed to _update_view: the aborted call left
\* no foreground view unprocessed.
C2_OtherViewsStillProcessed == \A t \in Ticks : skipped[t] = {}

\* C3: the scheduler is never halted: whenever no call of
\* _update_foreground_views is executing, is_rendering is false again, so
\* the next tick is not a no-op.
C3_FlagReleased == (\A t \in Ticks : pc[t] = "idle") => ~is_rendering

\* C4: a view whose scan or reconciliation raised keeps its dirty flag and
\* is scanned again by the next tick: while it waits for that scan no tick
\* returns as a no-op with no other tick in progress.
C4_FailedViewRetried == \A v \in retry : dirty[v] /\ ~blocked

\* C5: a view whose dirty flag is false at the moment it is gated is never
\* passed to view_find_all in that tick: whoever is in, or past, the scan of
\* a view read its dirty flag as true at the gate, and a tick that gated a
\* clean view has gone back to its loop without scanning.
C5_CleanViewNotScanned ==
    \A t \in Ticks :
        /\ (Detecting(t) \/ scanned[t]) => seen[t].view = cur[t] /\ seen[t].flags[2]
        /\ (seen[t].view # None /\ ~seen[t].flags[2]) =>
               pc[t] = "loop" /\ ~scanned[t] /\ seen[t].reject

C5_Witness ==
    \E t \in Ticks :
        /\ pc[t] = "loop" /\ seen[t].view # None
        /\ seen[t].flags[1] /\ ~seen[t].flags[2] /\ ~scanned[t]
        /\ \E v \in Views : ~dirty[v] /\ HoldsOverlays(v) /\ seen[t].view = v

\* C6 as worded: a foreground view that exceeds the size threshold has, once
\* _update_view has returned for it, both layers empty and its dirty flag
\* false.
C6_OversizedViewCleared ==
    \A t \in Ticks :
        (pc[t] = "loop" /\ seen[t].view # None /\ seen[t].large) =>
            /\ PhantomsShown(seen[t].view) = << >>
            /\ RegionsShown(seen[t].view) = << >>
            /\ ~dirty[seen[t].view]

\* C6 as amended: a foreground view that passes the gate and exceeds the
\* size threshold takes the oversized branch; its clean-up leaves both
\* layers empty whatever they held, no scan is run, and the branch ends by
\* writing the dirty flag false.
C6_EligibleOversizedViewCleared ==
    [][\A t \in Ticks :
        /\ (pc[t] = "gate" /\ pc'[t] \notin {"gate", "loop"}) =>
               pc'[t] = IF is_view_too_large(cur[t]) THEN "large" ELSE "detect"
        /\ (pc[t] = "large" /\ pc'[t] # "large") =>
               /\ pc'[t] = "large_dirty"
               /\ phantoms'[cur[t]] = {} /\ regions'[cur[t]] = {}
               /\ ~scanned'[t] /\ uri_regions'[t] = << >>
        /\ (pc[t] = "large_dirty" /\ pc'[t] # "large_dirty") =>
               /\ pc'[t] = "loop"
               /\ ~dirty'[cur[t]]
               /\ ~scanned[t]
      ]_vars

C6_Witness ==
    \E t \in Ticks :
        /\ pc[t] = "large_dirty" /\ seen[t].view = cur[t] /\ seen[t].large
        /\ seen[t].had[1] # << >> /\ seen[t].had[2] # << >>
        /\ ~HoldsOverlays(cur[t])

\* C7: for each layer on its own, when its policy is anything but "always",
\* the reconciliation after a scan leaves the layer empty, whatever the match
\* list, the other layer's policy and the layer's earlier content are;
\* clearing a layer that is empty already changes nothing.
C7_NonAlwaysLayerCleared ==
    [][\A t \in Ticks :
        /\ (pc[t] = "phantoms" /\ pc'[t] = "regions"
              /\ settings.show_open_button # "always") =>
               /\ phantoms'[cur[t]] = {}
               /\ phantoms[cur[t]] = {} => phantoms' = phantoms
               /\ regions' = regions
        /\ (pc[t] = "regions" /\ pc'[t] = "clear_dirty"
              /\ settings.draw_uri_regions_enabled # "always") =>
               /\ regions'[cur[t]] = {}
               /\ regions[cur[t]] = {} => regions' = regions
               /\ phantoms' = phantoms
      ]_vars

C7_Witness ==
    \E t \in Ticks :
        /\ pc[t] = "clear_dirty" /\ seen[t].view = cur[t]
        /\ settings.draw_uri_regions_enabled = "hover"
        /\ settings.show_open_button = "always"
        /\ uri_regions[t] # << >>
        /\ seen[t].had[2] # << >>
        /\ RegionsShown(cur[t]) = << >>
        /\ PhantomsShown(cur[t]) = uri_regions[t]

\* C8: when a layer's policy is "always", the reconciliation after a scan
\* leaves under the layer's key exactly the match list of that scan (earlier
\* ranges are replaced, an empty list gives an empty layer), and no view ever
\* carries more than one instance of a layer.
C8_AlwaysLayerExact ==
    [][/\ \A t \in Ticks :
            /\ (pc[t] = "phantoms" /\ pc'[t] = "regions"
                  /\ settings.show_open_button = "always") =>
                   /\ phantoms'[cur[t]] = { <<PhantomKey(cur[t]), uri_regions[t]>> }
                   /\ Shown(phantoms'[cur[t]], PhantomKey(cur[t])) = uri_regions[t]
            /\ (pc[t] = "regions" /\ pc'[t] = "clear_dirty"
                  /\ settings.draw_uri_regions_enabled = "always") =>
                   /\ regions'[cur[t]] = { <<RegionKey(cur[t]), uri_regions[t]>> }
                   /\ Shown(regions'[cur[t]], RegionKey(cur[t])) = uri_regions[t]
       /\ \A v \in Views :
            Cardinality(phantoms'[v]) <= 1 /\ Cardinality(regions'[v]) <= 1
      ]_vars

C8_Witness ==
    \E t \in Ticks :
        /\ pc[t] = "clear_dirty" /\ seen[t].view = cur[t]
        /\ settings.draw_uri_regions_enabled = "always"
        /\ seen[t].had[2] # << >>
        /\ uri_regions[t] # << >>
        /\ seen[t].had[2] # uri_regions[t]
        /\ RegionsShown(cur[t]) = uri_regions[t]

\* C9: a view that holds overlay entries and is ineligible has its overlays
\* cleared by a later tick (unless it becomes eligible again, or the
\* processing of some view has failed, which is the case of C3).
C9_StaleOverlaysCleared ==
    \A v \in Views :
        (HoldsOverlays(v) /\ Ineligible(v)) ~>
            (~HoldsOverlays(v) \/ ~Ineligible(v) \/ retry # {})

\* Why the overlays of an ineligible view stay for good: a layer of a view
\* changes only in a step of a tick that took the view from foreground_views
\* and read it processable, dirty, not typing and not barred as transient at
\* the gate.
OverlaysChangeOnlyPastTheGate ==
    [][\A v \in Views :
        (phantoms'[v] # phantoms[v] \/ regions'[v] # regions[v]) =>
            \E t \in Ticks :
                /\ cur[t] = v /\ pc'[t] # pc[t]
                /\ seen[t].view = v /\ Eligible(seen[t].flags)
      ]_vars

\* C20: no edit is lost to the write of the dirty flag: when _update_view
\* writes dirty = False after a scan, either the flag is true again after the
\* tick or the regions the tick found are those of the text the view has now.
C20_NoEditLost ==
    [][\A t \in Ticks :
        (pc[t] = "clear_dirty" /\ pc'[t] # "clear_dirty" /\ ~overlap /\ retry = {}) =>
            \/ dirty'[cur[t]]
            \/ uri_regions[t] = view_find_all(text'[cur[t]])
      ]_vars

\* C10: the gate evaluates processable, dirty, typing, transient policy in
\* this order and stops at the first condition that rejects; a view that
\* fails a condition is left as it is by the step: _update_view returns, no
\* scan, no layer touched, dirty flag not written.
C10_GateOrderAndFrame ==
    [][\A t \in Ticks :
        (pc[t] = "gate" /\ pc'[t] # "gate") =>
            LET s == seen'[t]
                n == Len(s.log)
            IN  /\ s.view = cur[t]
                /\ n \in 1..4
                /\ \A i \in 1..n : s.log[i] = <<GateOrder[i], s.flags[i]>>
                /\ \A i \in 1..(n - 1) : ~Rejects(s.flags, i)
                /\ n < 4 => Rejects(s.flags, n)
                /\ s.reject = ~Eligible(s.flags)
                /\ s.reject =>
                       /\ pc'[t] = "loop"
                       /\ UNCHANGED viewVars
                       /\ ~scanned'[t] /\ uri_regions'[t] = << >>
      ]_vars

C10_Witness ==
    \E t \in Ticks :
        /\ pc[t] = "loop" /\ seen[t].view # None /\ seen[t].reject
        /\ seen[t].log = << <<"processable", TRUE>>, <<"dirty", TRUE>>,
                            <<"typing", TRUE>> >>
        /\ dirty[seen[t].view] /\ typing[seen[t].view]

\* ================================================================ colours
\* plugin/ui/image.py: the colour strings of the image_colors setting and
\* their conversion to #RRGGBBAA.  A string is a sequence of characters.

\* How many characters a colour string of the setting has after its "#".
MaxDigits == 9

HexChars == <<"0", "1", "2", "3", "4", "5", "6", "7", "8", "9",
              "a", "b", "c", "d", "e", "f">>
UpperHex == <<"A", "B", "C", "D", "E", "F">>
\* [0-9a-fA-F]
IsHex(ch) ==
    \/ \E i \in 1..16 : HexChars[i] = ch
    \/ \E i \in 1..6 : UpperHex[i] = ch
\* [0-9a-f]
IsLowerHex(ch) == \E i \in 1..16 : HexChars[i] = ch
\* str.lower() on one character and on a string (of the letters used here)
LowerChar(ch) ==
    IF \E i \in 1..6 : UpperHex[i] = ch
    THEN HexChars[10 + (CHOOSE i \in 1..6 : UpperHex[i] = ch)]
    ELSE IF ch = "G" THEN "g" ELSE ch
Lower(str) == [i \in 1..Len(str) |-> LowerChar(str[i])]
\* str[a:b] with 0 <= a <= b
Slice(str, a, b) ==
    IF a >= Len(str) THEN << >>
    ELSE SubSeq(str, a + 1, IF b < Len(str) THEN b ELSE Len(str))
\* str.lstrip("#")
RECURSIVE LStripHash(_)
LStripHash(str) ==
    IF str # << >> /\ str[1] = "#" THEN LStripHash(Tail(str)) ELSE str
\* re.match(r"[0-9a-fA-F]+$", str): one or more hex digits from the start, up
\* to the end of the string or to a newline that ends the string.
MatchHexRun(str) ==
    \E k \in 1..Len(str) :
        /\ \A i \in 1..k : IsHex(str[i])
        /\ k = Len(str) \/ (k = Len(str) - 1 /\ str[Len(str)] = "\n")
\* re.match(r"#[0-9a-fA-F]{8}$", str)
MatchRgbaCode(str) ==
    /\ Len(str) \in {9, 10}
    /\ str[1] = "#"
    /\ \A i \in 2..9 : IsHex(str[i])
    /\ Len(str) = 10 => str[10] = "\n"
\* #[0-9a-f]{8}, the whole string
IsCanonical(str) ==
    Len(str) = 9 /\ str[1] = "#" /\ \A i \in 2..9 : IsLowerHex(str[i])

\* What a call gives: a string, or the ValueError it raises.
Value(str) == [kind |-> "value", val |-> str]
ValueError == [kind |-> "ValueError", val |-> << >>]

\* (variant: a 6-digit code is not lower-cased)
add_alpha_to_rgb_KeepsCase(code) ==
    LET rgb0 == Slice(LStripHash(code), 0, 8)
        rgb == IF Len(rgb0) = 3
               THEN <<rgb0[1], rgb0[1], rgb0[2], rgb0[2], rgb0[3], rgb0[3]>>
               ELSE rgb0
    IN  IF rgb0 = << >> THEN Value(<< >>)
        ELSE IF Len(rgb0) = 8 THEN Value(Lower(<<"#">> \o rgb0))
        ELSE IF Len(rgb) = 6 THEN Value(<<"#">> \o Slice(rgb, 0, 6) \o <<"f", "f">>)
        ELSE ValueError

\* add_alpha_to_rgb: #RGB, #RRGGBB or #RRGGBBAA to #RRGGBBAA in lower case;
\* the empty string stays empty; any other length raises.
add_alpha_to_rgb(code) ==
    LET rgb0 == Slice(LStripHash(code), 0, 8)
        rgb == IF Len(rgb0) = 3
               THEN <<rgb0[1], rgb0[1], rgb0[2], rgb0[2], rgb0[3], rgb0[3]>>
               ELSE rgb0
    IN  IF rgb0 = << >> THEN Value(<< >>)
        ELSE IF Len(rgb0) = 8 THEN Value(Lower(<<"#">> \o rgb0))
        ELSE IF Len(rgb) = 6
             THEN Value(Lower(<<"#">> \o Slice(rgb, 0, 6) \o <<"f", "f">>))
        ELSE ValueError

\* The value of a hex digit.
HexVal(ch) == (CHOOSE i \in 1..16 : HexChars[i] = LowerChar(ch)) - 1
\* int(str, 16) for a string of at most 8 hex digits, as the 8 hex digits of
\* a 32-bit number (most significant first).
ParseHex32(str) ==
    [i \in 1..8 |-> IF i <= 8 - Len(str) THEN 0 ELSE HexVal(str[i - (8 - Len(str))])]
\* (variant: all four bytes are inverted)
InvertRgb_AlphaToo(n) == [i \in 1..8 |-> 15 - n[i]]
\* (~rgba_int & 0xFFFFFF00) | (rgba_int & 0xFF)
InvertRgb(n) == [i \in 1..8 |-> IF i <= 6 THEN 15 - n[i] ELSE n[i]]
\* f"{n:08x}"
Format08x(n) == [i \in 1..8 |-> HexChars[n[i] + 1]]

ScopeCode == <<"@", "s", "c", "o", "p", "e">>
ScopeInvertedCode == ScopeCode \o <<"_", "i", "n", "v", "e", "r", "t", "e", "d">>

\* sublime.active_window().active_view() gives no view.
NoActiveView == <<None>>

\* The body of color_code_to_rgba.  fg is the "foreground" of the style of
\* the scope at the region ("" when the style has none), or NoActiveView.
color_code_to_rgba_body(code, fg) ==
    IF code = << >> THEN Value(<< >>)
    ELSE IF code[1] # "#"
    THEN IF fg = NoActiveView THEN Value(<< >>)
         ELSE IF code = ScopeCode THEN Value(fg)
         ELSE IF code = ScopeInvertedCode
         THEN LET digits == Slice(fg \o <<"f", "f">>, 1, 9)
              IN  IF \A i \in 1..Len(digits) : IsHex(digits[i])
                  THEN Value(<<"#">> \o Format08x(InvertRgb(ParseHex32(digits))))
                  ELSE ValueError
         ELSE Value(<< >>)
    ELSE LET rgb == Slice(code, 1, 9)
         IN  IF Len(rgb) \in {3, 6, 8} /\ MatchHexRun(rgb)
             THEN Value(<<"#">> \o rgb)
             ELSE Value(<< >>)

\* @simple_decorator(add_alpha_to_rgb): the decorator is applied to what the
\* body returns; an error of the body goes through.
color_code_to_rgba(code, fg) ==
    LET r == color_code_to_rgba_body(code, fg)
    IN  IF r.kind = "value" THEN add_alpha_to_rgb(r.val) ELSE r

\* ------------------------------------------------- the colours that occur
\* The hex digits the user's colour strings are made of, and the characters
\* of which a string may hold one besides them.
UserHex == {"a", "B"}
OddChars == {"0", "g", "#", "\n"}
\* The hex digits of the theme's colours.
ThemeHex == {"0", "a", "F"}

Bodies(len) ==
    LET plain == [1..len -> UserHex]
    IN  plain \cup { [b EXCEPT ![i] = o] : b \in plain, i \in 1..len, o \in OddChars }
HashColors == UNION { { <<"#">> \o b : b \in Bodies(len) } : len \in 0..MaxDigits }
OtherColors == { << >>, ScopeCode, ScopeInvertedCode, <<"r", "e", "d">> }
\* "color" is guaranteed to be #RRGGBB or #RRGGBBAA (comment in the code).
ThemeColors == { <<"#">> \o d : d \in [1..6 -> ThemeHex] \cup [1..8 -> ThemeHex] }
Foregrounds == ThemeColors \cup { << >>, NoActiveView }
DefaultForeground == <<"#", "a", "0", "F", "a", "0", "F">>

\* A region is about to get its image: the setting holds some colour string,
\* the theme some foreground (which matters for the symbolic colours only).
CodecInit ==
    /\ RendererInit
    /\ \/ color_code \in HashColors /\ foreground = DefaultForeground
       \/ color_code \in OtherColors /\ foreground \in Foregrounds
    /\ rgba = NoResult
    /\ outcome = "none"
    /\ RecolorIdle
    /\ CacheIdle

\* get_image_color: color_code_to_rgba(get_setting("image_colors")[img_name], region)
GetImageColor ==
    /\ rgba = NoResult
    /\ rgba' = color_code_to_rgba(color_code, foreground)
    /\ outcome' = IF rgba'.kind = "ValueError" THEN "ValueError in add_alpha_to_rgb"
                  ELSE outcome
    /\ UNCHANGED <<color_code, foreground, recolorVars, cacheVars>>
    /\ UNCHANGED <<viewVars, envVars, is_rendering, frameVars, obsVars, events>>

\* get_colored_image_base64_by_color(img_name, rgba_code), reached from
\* get_colored_image_base64_by_region: the stored image for an empty code,
\* else change_png_bytes_color, which first tests the code's form.
ColorImage ==
    /\ rgba.kind = "value"
    /\ outcome = "none"
    /\ outcome' = IF rgba.val = << >> THEN "stored image"
                  ELSE IF ~MatchRgbaCode(rgba.val)
                       THEN "ValueError in change_png_bytes_color"
                       ELSE "recolored image"
    /\ UNCHANGED <<color_code, foreground, rgba, recolorVars, cacheVars>>
    /\ UNCHANGED <<viewVars, envVars, is_rendering, frameVars, obsVars, events>>

CodecNext == GetImageColor \/ ColorImage

CodecSpec == CodecInit /\ [][CodecNext]_vars

\* ------------------------------------------------ properties of the colours

\* A "#" followed by exactly 3, 6 or 8 hex digits.
ValidHashColor(code) ==
    /\ code # << >> /\ code[1] = "#"
    /\ Len(code) - 1 \in {3, 6, 8}
    /\ \A i \in 2..Len(code) : IsHex(code[i])
\* A "#"-prefixed string that is not of that form.
InvalidHashColor(code) ==
    code # << >> /\ code[1] = "#" /\ ~ValidHashColor(code)
\* What the specification gives for a valid code: 3 digits doubled, 6 digits
\* with ff appended, 8 digits as they are, in lower case.
Canonical(code) ==
    LET d == Tail(code)
        six == IF Len(d) = 3 THEN <<d[1], d[1], d[2], d[2], d[3], d[3]>> ELSE d
    IN  Lower(<<"#">> \o (IF Len(six) = 6 THEN six \o <<"f", "f">> ELSE six))

\* C11: for every valid #-prefixed code of 3, 6 or 8 hex digits, in any
\* letter case, color_code_to_rgba returns #[0-9a-f]{8} (3 digits doubled, 6
\* digits with ff appended, 8 digits passed through, lower-cased), and gives
\* the same string when applied to its own output.
C11_NormalizeCanonicalIdempotent ==
    (ValidHashColor(color_code) /\ rgba # NoResult) =>
        /\ rgba.kind = "value"
        /\ IsCanonical(rgba.val)
        /\ rgba.val = Canonical(color_code)
        /\ color_code_to_rgba(rgba.val, foreground) = rgba

C11_Witness ==
    /\ color_code = <<"#", "a", "B", "0">>
    /\ rgba = Value(<<"#", "a", "a", "b", "b", "0", "0", "f", "f">>)

\* C12: a #-prefixed code whose digit count is not 3, 6 or 8, or that holds a
\* character that is no hex digit, makes color_code_to_rgba signal an error
\* to its caller: it returns no colour and no empty string.
C12_InvalidColorSignalled ==
    (InvalidHashColor(color_code) /\ rgba # NoResult) => rgba.kind = "ValueError"

\* C17: whatever the user's colour string is, and for every theme foreground
\* #RRGGBB or #RRGGBBAA, what color_code_to_rgba returns is empty or matches
\* #[0-9a-f]{8}, and change_png_bytes_color does not raise its ValueError.
C17_OnlyCanonicalReachesRecolorer ==
    (foreground \in ThemeColors \cup {NoActiveView}) =>
        /\ rgba.kind = "value" => (rgba.val = << >> \/ IsCanonical(rgba.val))
        /\ outcome # "ValueError in change_png_bytes_color"

\* The value of channel k (1: R, 2: G, 3: B, 4: A) of a colour #RRGGBB[AA].
Channel(color, k) == 16 * HexVal(color[2 * k]) + HexVal(color[2 * k + 1])
ByteHex(n) == <<HexChars[(n \div 16) + 1], HexChars[(n % 16) + 1]>>
AlphaOf(color) == IF Len(color) = 9 THEN Channel(color, 4) ELSE 255
InvertedColor(color) ==
    <<"#">> \o ByteHex(255 - Channel(color, 1)) \o ByteHex(255 - Channel(color, 2))
            \o ByteHex(255 - Channel(color, 3)) \o ByteHex(AlphaOf(color))

\* C19: "@scope_inverted" with a theme foreground #RRGGBB or #RRGGBBAA gives
\* the theme colour with R, G and B each replaced by 255 minus its value and
\* the alpha unchanged (ff when the theme colour has none), as 8 lower-case
\* hex digits; inverting the result again gives the theme colour in
\* canonical form.
C19_ScopeInverted ==
    (color_code = ScopeInvertedCode /\ foreground \in ThemeColors /\ rgba # NoResult) =>
        /\ rgba = Value(InvertedColor(foreground))
        /\ IsCanonical(rgba.val)
        /\ color_code_to_rgba(ScopeInvertedCode, rgba.val)
               = color_code_to_rgba(ScopeCode, foreground)

C19_Witness ==
    /\ color_code = ScopeInvertedCode
    /\ foreground = <<"#", "0", "a", "F", "F", "a", "0", "a", "F">>
    /\ rgba = Value(<<"#", "f", "5", "0", "0", "5", "f", "a", "f">>)

\* ============================================================ recolouring
\* plugin/ui/image.py: change_png_bytes_color and its helpers.  A PNG is
\* taken as what png.Reader(bytes=...).asRGBA() reads from it: its width, its
\* height and its pixels, row by row, each pixel <<R, G, B, A>> in 0..255.

\* calculate_gray: (rgb[0] * 38 + rgb[1] * 75 + rgb[2] * 15) >> 7
calculate_gray(rgb) == (rgb[1] * 38 + rgb[2] * 75 + rgb[3] * 15) \div 128

\* (variant: the alpha is weighted by the gray like the other channels)
render_pixel_GrayAlpha(rgba_src, rgba_dst, invert_gray) ==
    LET gray0 == calculate_gray(rgba_src)
        gray == IF invert_gray THEN 255 - gray0 ELSE gray0
    IN  <<(rgba_dst[1] * gray) \div 256,
          (rgba_dst[2] * gray) \div 256,
          (rgba_dst[3] * gray) \div 256,
          (rgba_dst[4] * gray) \div 256>>

\* render_pixel of change_png_bytes_color
render_pixel(rgba_src, rgba_dst, invert_gray) ==
    LET gray0 == calculate_gray(rgba_src)
        gray == IF invert_gray THEN 255 - gray0 ELSE gray0
    IN  <<(rgba_dst[1] * gray) \div 256,
          (rgba_dst[2] * gray) \div 256,
          (rgba_dst[3] * gray) \div 256,
          (rgba_dst[4] * rgba_src[4]) \div 256>>

RECURSIVE GraySum(_)
GraySum(pixels) ==
    IF pixels = << >> THEN 0 ELSE calculate_gray(Head(pixels)) + GraySum(Tail(pixels))
\* is_img_light: (gray_sum >> 7) > w * h
is_img_light(img) == (GraySum(img.pixels) \div 128) > img.w * img.h

\* [int(rgba_code[i : i + 2], 16) for i in range(1, 9, 2)]
rgba_dst_of(code) ==
    [k \in 1..4 |-> 16 * HexVal(code[2 * k]) + HexVal(code[2 * k + 1])]

\* (variant: the form of the code is tested before its emptiness)
change_png_bytes_color_ChecksFirst(img, code) ==
    IF ~MatchRgbaCode(code) THEN ValueError
    ELSE IF code = << >> THEN Value(img)
    ELSE LET invert_gray == ~is_img_light(img)
             dst == rgba_dst_of(code)
         IN  Value([img EXCEPT !.pixels =
                      [i \in 1..Len(img.pixels) |->
                          render_pixel(img.pixels[i], dst, invert_gray)]])

\* change_png_bytes_color(img_bytes, rgba_code), the cache aside
change_png_bytes_color(img, code) ==
    IF code = << >> THEN Value(img)
    ELSE IF ~MatchRgbaCode(code) THEN ValueError
    ELSE LET invert_gray == ~is_img_light(img)
             dst == rgba_dst_of(code)
         IN  Value([img EXCEPT !.pixels =
                      [i \in 1..Len(img.pixels) |->
                          render_pixel(img.pixels[i], dst, invert_gray)]])

\* base64.b64encode(img_bytes).decode()
b64encode(img) == <<"base64", img>>

\* get_colored_image_base64_by_color, the cache aside.  img is the PNG that
\* the globals hold for the image name: "images.<name>.bytes", and its base64
\* "images.<name>.base64".
get_colored_image_base64_by_color(img, code) ==
    IF code = << >> THEN Value(b64encode(img))
    ELSE LET r == change_png_bytes_color(img, code)
         IN  IF r.kind = "value" THEN Value(b64encode(r.val)) ELSE r

\* ---------------------------------------------- the images and codes tried
\* Channel values of the pixels of one-pixel templates, of two-pixel ones.
Chan == {0, 1, 128, 255}
Chan2 == {0, 255}
WhitePixel == <<255, 255, 255, 255>>
\* The sizes of the all-white templates.
WhiteSizes == (1..3) \X (1..3)
Templates ==
    { [w |-> 1, h |-> 1, pixels |-> <<p>>] : p \in Chan \X Chan \X Chan \X Chan }
    \cup
    { [w |-> 2, h |-> 1, pixels |-> <<p, q>>] :
        p \in Chan2 \X Chan2 \X Chan2 \X Chan2, q \in Chan2 \X Chan2 \X Chan2 \X Chan2 }
    \cup
    { [w |-> z[1], h |-> z[2], pixels |-> [i \in 1..(z[1] * z[2]) |-> WhitePixel]] :
        z \in WhiteSizes }
\* The bytes of the target colours.
CodeBytes == { <<"0", "0">>, <<"8", "0">>, <<"F", "F">> }
\* The codes passed: sound ones, the empty one, and one that is too short.
RgbaCodes ==
    { <<"#">> \o r \o g \o b \o a :
        r \in CodeBytes, g \in CodeBytes, b \in CodeBytes, a \in CodeBytes }
    \cup { <<"#", "f", "f", "0", "0", "0", "0", "8", "0">>,
           <<"#", "0", "1", "f", "e", "7", "f", "0", "1">>,
           << >>, <<"#", "f", "f", "f">> }

RecolorInit ==
    /\ RendererInit
    /\ CodecIdle
    /\ img_bytes \in Templates
    /\ rgba_code \in RgbaCodes
    /\ img_dst = NoResult
    /\ img_base64 = NoResult
    /\ CacheIdle

ChangePng ==
    /\ img_dst = NoResult
    /\ img_dst' = change_png_bytes_color(img_bytes, rgba_code)
    /\ UNCHANGED <<img_bytes, rgba_code, img_base64, codecVars, cacheVars>>
    /\ UNCHANGED <<viewVars, envVars, is_rendering, frameVars, obsVars, events>>

GetColoredImage ==
    /\ img_dst # NoResult
    /\ img_base64 = NoResult
    /\ img_base64' = get_colored_image_base64_by_color(img_bytes, rgba_code)
    /\ UNCHANGED <<img_bytes, rgba_code, img_dst, codecVars, cacheVars>>
    /\ UNCHANGED <<viewVars, envVars, is_rendering, frameVars, obsVars, events>>

RecolorNext == ChangePng \/ GetColoredImage

RecolorSpec == RecolorInit /\ [][RecolorNext]_vars

\* -------------------------------------------- properties of the recolouring

\* C14: with an empty target colour change_png_bytes_color returns the
\* template's bytes as they are, for every template, and
\* get_colored_image_base64_by_color returns the template's stored base64.
C14_EmptyColorPassThrough ==
    rgba_code = << >> =>
        /\ img_dst # NoResult => img_dst = Value(img_bytes)
        /\ img_base64 # NoResult => img_base64 = Value(b64encode(img_bytes))

C14_Witness ==
    /\ rgba_code = << >>
    /\ img_bytes.pixels = << <<255, 128, 0, 1>> >>
    /\ img_dst = Value(img_bytes)
    /\ img_base64 = Value(b64encode(img_bytes))

\* C15: every pixel of the result is <<(tR*g)>>8, (tG*g)>>8, (tB*g)>>8,
\* (tA*A)>>8>> for the source pixel <<R, G, B, A>> and the target colour
\* <<tR, tG, tB, tA>>, with gray = (R*38 + G*75 + B*15)>>7 and g = gray for a
\* light template, 255 - gray for a dark one; so the alpha is the same with
\* and without the inversion and does not depend on R, G, B.
C15_PixelFormula ==
    (rgba_code # << >> /\ img_dst # NoResult /\ img_dst.kind = "value") =>
        /\ img_dst.val.w = img_bytes.w /\ img_dst.val.h = img_bytes.h
        /\ Len(img_dst.val.pixels) = Len(img_bytes.pixels)
        /\ \A i \in 1..Len(img_bytes.pixels) :
              LET src == img_bytes.pixels[i]
                  out == img_dst.val.pixels[i]
                  gray == (src[1] * 38 + src[2] * 75 + src[3] * 15) \div 128
                  g == IF is_img_light(img_bytes) THEN gray ELSE 255 - gray
              IN  /\ out[1] = (Channel(rgba_code, 1) * g) \div 256
                  /\ out[2] = (Channel(rgba_code, 2) * g) \div 256
                  /\ out[3] = (Channel(rgba_code, 3) * g) \div 256
                  /\ out[4] = (Channel(rgba_code, 4) * src[4]) \div 256

C15_Witness ==
    /\ is_img_light(img_bytes)
    /\ img_bytes.pixels = << <<255, 255, 255, 255>>, <<255, 255, 0, 0>> >>
    /\ rgba_code = <<"#", "F", "F", "8", "0", "0", "0", "8", "0">>
    /\ img_dst # NoResult
    /\ img_dst.val.pixels = << <<254, 127, 0, 127>>, <<224, 112, 0, 0>> >>

\* C16: a template of fully opaque white pixels only is classified light by
\* is_img_light whatever its size, 1x1 included, and the 1x1 one recoloured
\* to #ff000080 is the pixel <<254, 0, 0, 127>>.
C16_WhiteTemplateIsLight ==
    (/\ \A i \in 1..Len(img_bytes.pixels) : img_bytes.pixels[i] = WhitePixel
     /\ rgba_code # << >>
     /\ img_dst.kind = "value") =>
        /\ is_img_light(img_bytes)
        /\ (/\ img_bytes.w = 1 /\ img_bytes.h = 1
            /\ rgba_code = <<"#", "f", "f", "0", "0", "0", "0", "8", "0">>)
           => img_dst = Value([img_bytes EXCEPT !.pixels = << <<254, 0, 0, 127>> >>])

\* ================================================= the two result caches
\* get_colored_image_base64_by_color and change_png_bytes_color are each
\* wrapped by a bare @lru_cache: a cache of maxsize 128 that drops the least
\* recently used entry when a new key arrives at a full cache.  A lookup and
\* an insertion are each atomic; the wrapped function runs between them with
\* the cache unlocked, so two threads can compute the same key, and the
\* insertion of a key that has arrived in the meantime changes nothing.
\* The capacity is scaled down: LruMaxSize stands for the 128 of functools.
LruMaxSize == 2
MaxCalls == 4

\* The images of the two image names ("images.<name>.bytes" of the globals):
\* one pixel wide, two rows high; "phantom" is light, "popup" is dark.
ImgNames == {"phantom", "popup"}
Images ==
    [n \in ImgNames |->
        IF n = "phantom"
        THEN [w |-> 1, h |-> 2, pixels |-> << <<255, 255, 255, 255>>, <<255, 255, 0, 128>> >>]
        ELSE [w |-> 1, h |-> 2, pixels |-> << <<0, 0, 0, 255>>, <<128, 0, 0, 1>> >>]]

\* The colour codes asked for: none, and two canonical ones.
CacheCodes ==
    { << >>,
      <<"#", "F", "F", "8", "0", "0", "0", "8", "0">>,
      <<"#", "0", "0", "F", "F", "8", "0", "F", "F">> }

\* The key of the outer cache is the argument tuple (img_name, rgba_code),
\* the key of the inner one (img_bytes, rgba_code).
B64Key(n, code) == <<n, code>>
PngKey(n, code) == <<Images[n], code>>

\* --- functools.lru_cache, bounded
CacheHas(cache, k) == \E i \in 1..Len(cache) : cache[i].key = k
CacheGet(cache, k) == (CHOOSE i \in 1..Len(cache) : cache[i].key = k)
Without(cache, k) == SelectSeq(cache, LAMBDA e : e.key # k)

\* a hit makes the entry the most recently used
CacheTouch(cache, k) == Append(Without(cache, k), cache[CacheGet(cache, k)])

\* (variant: the key is not looked up again before the insertion)
CachePut_NoRecheck(cache, k, v) ==
    IF Len(cache) >= LruMaxSize THEN Append(Tail(cache), [key |-> k, val |-> v])
    ELSE Append(cache, [key |-> k, val |-> v])

\* the insertion after the wrapped function returned
CachePut(cache, k, v) ==
    IF CacheHas(cache, k) THEN cache
    ELSE IF Len(cache) >= LruMaxSize THEN Append(Tail(cache), [key |-> k, val |-> v])
    ELSE Append(cache, [key |-> k, val |-> v])

\* --- the rows of change_png_bytes_color's loop (image.py 98-104)
RowOf(img, r) == SubSeq(img.pixels, (r - 1) * img.w + 1, r * img.w)

RenderedRow(img, code, r) ==
    LET invert_gray == ~is_img_light(img)
        dst == rgba_dst_of(code)
        row == RowOf(img, r)
    IN  [i \in 1..Len(row) |-> render_pixel(row[i], dst, invert_gray)]

\* the PNG written from the rows collected
ImageOfRows(img, rows) ==
    [w |-> img.w, h |-> Len(rows),
     pixels |-> IF rows = << >> THEN << >>
                ELSE [i \in 1..(Len(rows) * img.w) |->
                        rows[((i - 1) \div img.w) + 1][((i - 1) % img.w) + 1]]]

\* the rendered rows of every image in every colour
RenderedRows ==
    [n \in ImgNames |->
        [code \in CacheCodes \ {<< >>} |->
            [r \in 1..Images[n].h |-> RenderedRow(Images[n], code, r)]]]

CacheInit ==
    /\ RendererInit
    /\ CodecIdle
    /\ RecolorIdle
    /\ CacheIdle

Idle(c) == call[c].pc = "idle"

\* The two callers are alike: "b" is the one that calls while "a" is in a call.
MayCall(c) == Idle(c) /\ ncalls < MaxCalls /\ (c = "b" => ~Idle("a"))
OthersUnchanged ==
    UNCHANGED <<codecVars, recolorVars, viewVars, envVars, is_rendering,
                frameVars, obsVars, events>>

\* A call of get_colored_image_base64_by_color(img_name, rgba_code) that the
\* outer cache answers.
CallHit(c, n, code) ==
    /\ MayCall(c)
    /\ CacheHas(cache_b64, B64Key(n, code))
    /\ result' = [result EXCEPT ![c] =
           [key |-> B64Key(n, code),
            val |-> cache_b64[CacheGet(cache_b64, B64Key(n, code))].val]]
    /\ cache_b64' = CacheTouch(cache_b64, B64Key(n, code))
    /\ ncalls' = ncalls + 1
    /\ UNCHANGED <<cache_png, call, stored, refetch, raced>>
    /\ OthersUnchanged

\* A call that the outer cache misses: the body is to run.
CallMiss(c, n, code) ==
    /\ MayCall(c)
    /\ ~CacheHas(cache_b64, B64Key(n, code))
    /\ call' = [call EXCEPT ![c] = [pc |-> "body", name |-> n, code |-> code,
                                    rows |-> << >>, png |-> NoImage]]
    /\ refetch' = [refetch EXCEPT ![c] = B64Key(n, code) \in stored]
    /\ ncalls' = ncalls + 1
    /\ UNCHANGED <<cache_b64, cache_png, result, stored, raced>>
    /\ OthersUnchanged

\* image.py 41-42: no colour, the stored base64 of the image
BodyStored(c) ==
    /\ call[c].pc = "body" /\ call[c].code = << >>
    /\ call' = [call EXCEPT ![c].pc = "return", ![c].png = Images[call[c].name]]
    /\ UNCHANGED <<cache_b64, cache_png, result, stored, refetch, raced, ncalls>>
    /\ OthersUnchanged

\* image.py 44: change_png_bytes_color(...) answered by the inner cache
BodyPngHit(c) ==
    /\ call[c].pc = "body" /\ call[c].code # << >>
    /\ CacheHas(cache_png, PngKey(call[c].name, call[c].code))
    /\ call' = [call EXCEPT ![c].pc = "return",
           ![c].png = cache_png[CacheGet(cache_png, PngKey(call[c].name, call[c].code))].val]
    /\ cache_png' = CacheTouch(cache_png, PngKey(call[c].name, call[c].code))
    /\ UNCHANGED <<cache_b64, result, stored, refetch, raced, ncalls>>
    /\ OthersUnchanged

\* image.py 44: the inner cache misses, change_png_bytes_color starts
BodyPngMiss(c) ==
    /\ call[c].pc = "body" /\ call[c].code # << >>
    /\ ~CacheHas(cache_png, PngKey(call[c].name, call[c].code))
    /\ call' = [call EXCEPT ![c].pc = "render", ![c].rows = << >>]
    /\ UNCHANGED <<cache_b64, cache_png, result, stored, refetch, raced, ncalls>>
    /\ OthersUnchanged

\* image.py 98-104: one more row of the image is rendered into the local list
RenderRow(c) ==
    /\ call[c].pc = "render"
    /\ Len(call[c].rows) < Images[call[c].name].h
    /\ call' = [call EXCEPT ![c].rows =
           Append(@, RenderedRows[call[c].name][call[c].code][Len(@) + 1])]
    /\ UNCHANGED <<cache_b64, cache_png, result, stored, refetch, raced, ncalls>>
    /\ OthersUnchanged

\* image.py 106: change_png_bytes_color returns, and its cache takes the value
ReturnPng(c) ==
    /\ call[c].pc = "render"
    /\ Len(call[c].rows) = Images[call[c].name].h
    /\ LET png == ImageOfRows(Images[call[c].name], call[c].rows)
           k == PngKey(call[c].name, call[c].code)
       IN  /\ cache_png' = CachePut(cache_png, k, png)
           /\ raced' = (raced \/ CacheHas(cache_png, k))
           /\ call' = [call EXCEPT ![c].pc = "return", ![c].png = png]
    /\ UNCHANGED <<cache_b64, result, stored, refetch, ncalls>>
    /\ OthersUnchanged

\* image.py 42, 47: get_colored_image_base64_by_color returns the base64, and
\* its cache takes the value
ReturnB64(c) ==
    /\ call[c].pc = "return"
    /\ LET k == B64Key(call[c].name, call[c].code)
           v == b64encode(call[c].png)
       IN  /\ cache_b64' = CachePut(cache_b64, k, v)
           /\ result' = [result EXCEPT ![c] = [key |-> k, val |-> v]]
           /\ stored' = stored \cup {k}
    /\ call' = [call EXCEPT ![c] = NoCall]
    /\ UNCHANGED <<cache_png, refetch, raced, ncalls>>
    /\ OthersUnchanged

CacheNext ==
    \/ \E c \in Callers, n \in ImgNames, code \in CacheCodes : CallHit(c, n, code)
    \/ \E c \in Callers, n \in ImgNames, code \in CacheCodes : CallMiss(c, n, code)
    \/ \E c \in Callers : BodyStored(c)
    \/ \E c \in Callers : BodyPngHit(c)
    \/ \E c \in Callers : BodyPngMiss(c)
    \/ \E c \in Callers : RenderRow(c)
    \/ \E c \in Callers : ReturnPng(c)
    \/ \E c \in Callers : ReturnB64(c)

CacheSpec == CacheInit /\ [][CacheNext]_vars

\* ------------------------------------------------- properties: the caches
\* every key of the outer cache with what a call with it gives, the caches
\* aside; the same for the inner cache
ExpectedB64 ==
    { <<k, get_colored_image_base64_by_color(Images[k[1]], k[2]).val>> :
        k \in ImgNames \X CacheCodes }
ExpectedPng ==
    { <<k, change_png_bytes_color(k[1], k[2]).val>> :
        k \in {Images[n] : n \in ImgNames} \X (CacheCodes \ {<< >>}) }

\* C13: a pair that has been recoloured is kept by the cache from then on: a
\* later call with the same pair is answered from the cache, whatever other
\* pairs were asked for in between, and its image is never rendered again.
C13_RetainedForLifetime ==
    \A c \in Callers : call[c].pc = "render" => ~refetch[c]

NoDuplicateKeys(cache) ==
    \A i, j \in 1..Len(cache) : cache[i].key = cache[j].key => i = j

\* C18: with two threads calling at once, possibly with the same pair, every
\* caller gets the bytes of its pair, each cache holds one entry per key, and
\* every cached value is the complete image or base64 of its key.
C18_RaceSafe ==
    /\ NoDuplicateKeys(cache_b64) /\ NoDuplicateKeys(cache_png)
    /\ \A i \in 1..Len(cache_b64) : <<cache_b64[i].key, cache_b64[i].val>> \in ExpectedB64
    /\ \A i \in 1..Len(cache_png) : <<cache_png[i].key, cache_png[i].val>> \in ExpectedPng
    /\ \A c \in Callers : result[c] # NoResult => <<result[c].key, result[c].val>> \in ExpectedB64
    /\ \A c \in Callers : call[c].pc = "return" =>
          <<B64Key(call[c].name, call[c].code), b64encode(call[c].png)>> \in ExpectedB64

\* both threads computed the same coloured image at the same time, and both
\* have returned
C18_Witness ==
    /\ raced
    /\ \A c \in Callers : Idle(c) /\ result[c] # NoResult
    /\ result["a"] = result["b"]
    /\ result["a"].key[2] # << >>

====
